---------------------------- MODULE Spec2Model ----------------------------
(***************************************************************************)
(* A model of cairosvg/text.py: the path sampler (path_length,             *)
(* point_following_path), the text-extent aggregator                       *)
(* (get_node_text_extents) and the per-character layout of text().         *)
(*                                                                         *)
(* Numbers.  Every length is a fixed-point integer with one binary         *)
(* fractional digit: Fx(n) stands for the float n, and the odd integers    *)
(* for the halves.  All inputs are whole (even), the code halves a value   *)
(* at most once before adding it, so Half is exact wherever it is used.    *)
(* Angles given by the rotate attribute are kept as their number of        *)
(* degrees: radians() is a fixed positive scaling, and only the choice of  *)
(* the angle matters here.                                                 *)
(*                                                                         *)
(* Optional values.  Python's None is the empty tuple, a present value v   *)
(* is <<v>>; a point is <<x, y>> and an absent point is None.              *)
(***************************************************************************)
EXTENDS Integers, Sequences, FiniteSets, TLC

VARIABLES
    sp,         \* the path sampler's call: its arguments and its results
    al,         \* the anchor alignment's call: its arguments and its result
    ex,         \* get_node_text_extents' call: its walk and its result
    profile,    \* the family of documents being rendered (fixed by Init)
    pc,         \* where text() stands: idle, body, emit, done
    surface,    \* cursor_position, cursor_d_position, text_path_width
    depth,      \* surface.context: saves not yet restored
    doc,        \* the document tree around the node being drawn
    nid,        \* the node text() was called with, an index into doc
    loc,        \* the locals text() computes before its loop
    lp,         \* letters_positions: what is left of x, y, dx, dy, rotate
    i,          \* the loop's index
    bounding_box,   \* the points the node's bounding box was extended with
    last,       \* what the loop did for the latest character
    nodes_done  \* text() calls returned in this render pass

-----------------------------------------------------------------------------
(* Bounds *)

\* The longest path, in segments, handed to the path sampler.
MaxSegs == 3
\* Path points lie on the grid 0..Grid x 0..Grid.
Grid == 2
\* The longest text of a node, in characters.
MaxLen == 2
\* The text() calls of one render pass.
MaxNodes == 2
\* The longest text whose anchor alignment is computed on its own.
MaxChars == 3
\* The largest tree, in nodes, whose text extents are aggregated.
MaxTree == 3

-----------------------------------------------------------------------------
(* Numbers and optional values *)

Fx(n) == 2 * n
Half(v) == v \div 2
Abs(v) == IF v < 0 THEN -v ELSE v

None == <<>>
Some(v) == <<v>>
\* Python truthiness of an optional number: None and 0 are false.
Truthy(o) == o /= None /\ o[1] /= 0
\* Python's `a or b` on an optional number with a number fallback.
OrElse(o, d) == IF Truthy(o) THEN o[1] ELSE d

-----------------------------------------------------------------------------
(* Path sampler *)

PATH_MOVE_TO == "MOVE_TO"
PATH_LINE_TO == "LINE_TO"

\* helpers.distance: the Euclidean distance, whole on the paths of the model
\* (their segments are parallel to an axis).
distance(x1, y1, x2, y2) ==
    LET sq == (x2 - x1) * (x2 - x1) + (y2 - y1) * (y2 - y1)
    IN  CHOOSE r \in 0..(Abs(x2 - x1) + Abs(y2 - y1)) : r * r = sq

\* helpers.point_angle: atan2(cy - py, cx - px), kept as <<cos, sin>> of the
\* angle; atan2(0, 0) is 0.
point_angle(cx, cy, px, py) ==
    LET d == distance(cx, cy, px, py)
    IN  IF d = 0 THEN <<1, 0>> ELSE <<(px - cx) \div d, (py - cy) \div d>>

cos(angle) == angle[1]
sin(angle) == angle[2]

RECURSIVE path_length_loop(_, _, _, _)
path_length_loop(path, k, old_point, total_length) ==
    IF k > Len(path) THEN total_length
    ELSE LET item == path[k] IN
         IF item[1] = PATH_MOVE_TO
         THEN path_length_loop(path, k + 1, item[2], total_length)
         ELSE IF item[1] = PATH_LINE_TO
         THEN LET new_point == item[2]
                  length == distance(old_point[1], old_point[2],
                                     new_point[1], new_point[2])
              IN  path_length_loop(path, k + 1, new_point, total_length + length)
         ELSE path_length_loop(path, k + 1, old_point, total_length)

RECURSIVE path_length_joined(_, _)
\* The length of the first k items when the jump to a MoveTo is measured like
\* a line.
path_length_joined(path, k) ==
    IF k < 2 THEN 0
    ELSE path_length_joined(path, k - 1)
         + Abs(path[k][2][1] - path[k - 1][2][1])
         + Abs(path[k][2][2] - path[k - 1][2][2])
path_lengthMut(path) == path_length_joined(path, Len(path))
path_length(path) == path_length_loop(path, 1, None, 0)

\* The comparison that decides whether the walk goes on to the next segment.
PastSegmentMut(total_length, width) == total_length <= width
PastSegment(total_length, width) == total_length < width

\* The point returned once the walk stops on the segment old_point..new_point.
InterpolateMut(old_point, new_point, length, total_length, width) ==
    LET angle == point_angle(old_point[1], old_point[2],
                             new_point[1], new_point[2])
    IN  <<cos(angle) * width + old_point[1], sin(angle) * width + old_point[2]>>
Interpolate(old_point, new_point, length, total_length, width) ==
    LET back == length - (total_length - width)
        angle == point_angle(old_point[1], old_point[2],
                             new_point[1], new_point[2])
    IN  <<cos(angle) * back + old_point[1], sin(angle) * back + old_point[2]>>

RECURSIVE point_following_path_loop(_, _, _, _, _)
point_following_path_loop(path, width, k, old_point, total_length) ==
    IF k > Len(path) THEN None
    ELSE LET item == path[k] IN
         IF item[1] = PATH_MOVE_TO
         THEN point_following_path_loop(path, width, k + 1, item[2], total_length)
         ELSE IF item[1] = PATH_LINE_TO
         THEN LET new_point == item[2]
                  length == distance(old_point[1], old_point[2],
                                     new_point[1], new_point[2])
                  total == total_length + length
              IN  IF PastSegment(total, width)
                  THEN point_following_path_loop(path, width, k + 1,
                                                 new_point, total)
                  ELSE Interpolate(old_point, new_point, length, total, width)
         ELSE point_following_path_loop(path, width, k + 1, old_point,
                                        total_length)

point_following_path(path, width) ==
    point_following_path_loop(path, width, 1, None, 0)

-----------------------------------------------------------------------------
(* The drawing surface's font: what context.font_extents() and              *)
(* context.text_extents() answer.  One glyph table serves every font; a     *)
(* font differs by its font-level metrics only.                             *)

Letters == {"A", " "}
isspace(letter) == letter = " "

GlyphAdvance(c) == IF c = "A" THEN Fx(2) ELSE Fx(1)
GlyphHeight(c) == IF c = "A" THEN Fx(3) ELSE 0
GlyphBearing(c) == IF c = "A" THEN Fx(1) ELSE 0

RECURSIVE SumAdvance(_, _)
\* The advances of the first n letters of s.
SumAdvance(s, n) ==
    IF n = 0 THEN 0 ELSE SumAdvance(s, n - 1) + GlyphAdvance(s[n])

MaxOf(S) == IF S = {} THEN 0 ELSE CHOOSE m \in S : \A v \in S : v <= m

\* context.text_extents(s):
\* <<x_bearing, y_bearing, width, height, x_advance, y_advance>>.
text_extents(s) ==
    LET height == MaxOf({GlyphHeight(s[k]) : k \in 1..Len(s)})
    IN  <<IF s = <<>> THEN 0 ELSE GlyphBearing(s[1]),
          -height,
          SumAdvance(s, Len(s)),
          height,
          SumAdvance(s, Len(s)),
          0>>

\* context.font_extents() after initial_context_font(surface, node):
\* <<ascent, descent, height, max_x_advance, max_y_advance>>.
HorizontalFont == <<Fx(4), Fx(1), Fx(5), Fx(2), 0>>
VerticalFont == <<Fx(4), Fx(1), Fx(5), Fx(2), Fx(5)>>
UprightFont == <<Fx(4), Fx(1), Fx(5), 0, Fx(5)>>
EmptyFont == <<0, 0, 0, 0, 0>>
font_extents(node) == node.font

-----------------------------------------------------------------------------
(* The text-extent aggregator *)

get_single_node_text_extends(node) == text_extents(node.text)

RECURSIVE iter_nodes(_, _)
RECURSIVE iter_children(_, _, _)
\* The nodes below doc[n], n included, in document order.
iter_nodes(d, n) == <<n>> \o iter_children(d, d[n].children, 1)
iter_children(d, children, k) ==
    IF k > Len(children) THEN <<>>
    ELSE iter_nodes(d, children[k]) \o iter_children(d, children, k + 1)

\* while parent_text_node.tag != 'text' and parent_text_node.parent
WalksUp(d, n) == d[n].tag /= "text" /\ d[n].parent /= 0

RECURSIVE AncestorWalk(_, _)
AncestorWalk(d, n) ==
    IF WalksUp(d, n) THEN AncestorWalk(d, d[n].parent) ELSE n

\* The width of the first node alone.
SumWidthsMut(d, order, k) ==
    IF k > 1 THEN 0 ELSE get_single_node_text_extends(d[order[1]])[3]
RECURSIVE SumWidths(_, _, _)
SumWidths(d, order, k) ==
    IF k > Len(order) THEN 0
    ELSE get_single_node_text_extends(d[order[k]])[3]
         + SumWidths(d, order, k + 1)

\* if parent_text_node is not node and parent_text_node.tag != 'text'
text_container(d, n, top) ==
    IF top /= n /\ d[top].tag /= "text" THEN n ELSE top

\* Lines 92-104: the sums, once the walk has stopped at top.
extents_below(d, n, top) ==
    LET parent_text_node == text_container(d, n, top)
        order == iter_nodes(d, parent_text_node)
        hit == \E k \in 1..Len(order) : order[k] = n
        own == get_single_node_text_extends(d[n])
        x_bearing == IF hit THEN own[1] ELSE 0
        y_bearing == IF hit THEN own[2] ELSE 0
        height == IF hit THEN own[4] ELSE 0
        width == SumWidths(d, order, 1)
    IN  <<x_bearing, y_bearing, width, height,
          width - x_bearing, height - y_bearing>>

get_node_text_extents(d, n) == extents_below(d, n, AncestorWalk(d, n))

-----------------------------------------------------------------------------
(* text(): what it computes before its loop *)

\* url.parse_url(href).fragment, for the hrefs of the model.
Fragment(href) == IF href = "#p" THEN "p" ELSE IF href = "#q" THEN "q" ELSE ""

\* surface.paths: the one path registered, under the id p, and the flattened
\* geometry surface.draw() and copy_path_flat() give for it: 3 along x, then
\* 2 along y.
RegisteredPaths == {"p"}
cairo_path_of(id) ==
    <<<<PATH_MOVE_TO, <<0, 0>>>>,
      <<PATH_LINE_TO, <<Fx(3), 0>>>>,
      <<PATH_LINE_TO, <<Fx(3), Fx(2)>>>>>>

\* node.get_href() or node.parent.get_href() or '': text() is called on
\* elements below the root, so the parent is there when it is asked.
HrefOf(d, n) ==
    IF d[n].href /= "" THEN d[n].href ELSE d[d[n].parent].href

\* The id of the path the text follows, "" when there is none.
text_path_ofMut(d, n) == Fragment(HrefOf(d, n))
text_path_of(d, n) ==
    LET fragment == Fragment(HrefOf(d, n))
    IN  IF fragment /= "" /\ fragment \in RegisteredPaths THEN fragment ELSE ""

\* helpers.size on startOffset: a percentage is taken of the reference.
size(value, reference) ==
    IF value.unit = "%" THEN (value.v * reference) \div 100 ELSE value.v

\* rotate = [0] unless the attribute is there.
rotate_list(node) == IF node.rotate = <<>> THEN <<0>> ELSE node.rotate

XAlignMut(text_anchor, width, x_bearing, letter_spacing, text) ==
    IF text_anchor = "middle" THEN -(Half(width) + x_bearing)
    ELSE IF text_anchor = "end" THEN -(width + x_bearing)
    ELSE 0
XAlign(text_anchor, width, x_bearing, letter_spacing, text) ==
    LET spaced == letter_spacing /= 0 /\ text /= <<>>
    IN  IF text_anchor = "middle"
        THEN -(Half(width) + x_bearing)
             - (IF spaced THEN Half((Len(text) - 1) * letter_spacing) ELSE 0)
        ELSE IF text_anchor = "end"
        THEN -(width + x_bearing)
             - (IF spaced THEN (Len(text) - 1) * letter_spacing ELSE 0)
        ELSE 0

\* if max_x_advance > 0 and max_y_advance == 0
HorizontalMetricsMut(max_x_advance, max_y_advance) == max_x_advance > 0
HorizontalMetrics(max_x_advance, max_y_advance) ==
    max_x_advance > 0 /\ max_y_advance = 0

\* node.get('dominant-baseline') or node.get('alignment-baseline')
Baseline(node) ==
    IF node.dominant_baseline /= "" THEN node.dominant_baseline
    ELSE node.alignment_baseline

\* The same cases with the baseline looked at before the display-anchor.
YAlignMut(fe, display_anchor, alignment_baseline, height, y_bearing) ==
    LET ascent == fe[1]
        descent == fe[2]
    IN  IF ~HorizontalMetrics(fe[4], fe[5]) THEN 0
        ELSE IF alignment_baseline \in {"central", "middle"}
        THEN Half(ascent + descent) - descent
        ELSE IF alignment_baseline \in {"text-before-edge", "before_edge",
                                        "top", "hanging", "text-top"}
        THEN ascent
        ELSE IF alignment_baseline \in {"text-after-edge", "after_edge",
                                        "bottom", "text-bottom"}
        THEN -descent
        ELSE IF display_anchor = "middle" THEN Half(-height) - y_bearing
        ELSE IF display_anchor = "top" THEN -y_bearing
        ELSE IF display_anchor = "bottom" THEN -height - y_bearing
        ELSE 0
YAlign(fe, display_anchor, alignment_baseline, height, y_bearing) ==
    LET ascent == fe[1]
        descent == fe[2]
    IN  IF ~HorizontalMetrics(fe[4], fe[5]) THEN 0
        ELSE IF display_anchor = "middle" THEN Half(-height) - y_bearing
        ELSE IF display_anchor = "top" THEN -y_bearing
        ELSE IF display_anchor = "bottom" THEN -height - y_bearing
        ELSE IF alignment_baseline \in {"central", "middle"}
        THEN Half(ascent + descent) - descent
        ELSE IF alignment_baseline \in {"text-before-edge", "before_edge",
                                        "top", "hanging", "text-top"}
        THEN ascent
        ELSE IF alignment_baseline \in {"text-after-edge", "after_edge",
                                        "bottom", "text-bottom"}
        THEN -descent
        ELSE 0

\* surface.text_path_width after the path is prepared.
PathWidthAtStartMut(tag, text_path_width, start_offset, x_align) ==
    text_path_width + start_offset + x_align
PathWidthAtStart(tag, text_path_width, start_offset, x_align) ==
    (IF tag = "textPath" THEN text_path_width + start_offset
     ELSE text_path_width) + x_align

\* bounding_box.extend_bounding_box: the box is kept as the set of the points
\* it was extended with, EMPTY_BOUNDING_BOX being the empty set.
EMPTY_BOUNDING_BOX == {}
extend_bounding_box(box, points) == box \cup points
is_valid_bounding_box(box) == box /= {}

-----------------------------------------------------------------------------
(* text(): one turn of its loop *)

\* helpers.zip_letters: each list gives its first element to the character
\* and loses it; an exhausted list gives None.
Pop(list) == IF list = <<>> THEN None ELSE Some(Head(list))
Rest(list) == IF list = <<>> THEN <<>> ELSE Tail(list)
zip_letters_head(l) ==
    [x |-> Pop(l.x), y |-> Pop(l.y), dx |-> Pop(l.dx), dy |-> Pop(l.dy),
     r |-> Pop(l.rotate)]
zip_letters_rest(l) ==
    [x |-> Rest(l.x), y |-> Rest(l.y), dx |-> Rest(l.dx), dy |-> Rest(l.dy),
     rotate |-> Rest(l.rotate)]

\* if x: surface.cursor_d_position[0] = 0
ResetDeltaMut(acc, v) == acc
ResetDelta(acc, v) == IF Truthy(v) THEN 0 ELSE acc

\* surface.cursor_d_position[0] += dx or 0
AddDeltaMut(acc, dv) == OrElse(dv, 0)
AddDelta(acc, dv) == acc + OrElse(dv, 0)

\* start = surface.text_path_width + surface.cursor_d_position[0]
PathStart(text_path_width, cdx) == text_path_width + cdx

\* if i: extents += letter_spacing
PathAdvanceMut(k, extents, letter_spacing) == extents
PathAdvance(k, extents, letter_spacing) ==
    IF k /= 0 THEN extents + letter_spacing ELSE extents

\* not all((start_point, middle_point, end_point)), not 0 <= middle <= length
PathSkipMut(start_point, middle_point, end_point, middle, length) ==
    \/ start_point = None \/ middle_point = None \/ end_point = None
PathSkip(start_point, middle_point, end_point, middle, length) ==
    \/ start_point = None \/ middle_point = None \/ end_point = None
    \/ ~(0 <= middle /\ middle <= length)

\* The saves not yet restored once the character is placed.
DepthPlacedMut(d, skipped) == d + 1
DepthPlaced(d, skipped) == IF skipped THEN d ELSE d + 1

\* x = surface.cursor_position[0] if x is None else x; if i: x += spacing
FreeX(x, cursor_x, k, letter_spacing) ==
    (IF x = None THEN cursor_x ELSE x[1])
    + (IF k /= 0 THEN letter_spacing ELSE 0)
FreeY(y, cursor_y) == IF y = None THEN cursor_y ELSE y[1]

\* last_r if r is None else r
RotationMut(r, last_r) == IF r = None THEN 0 ELSE r[1]
Rotation(r, last_r) == IF r = None THEN last_r ELSE r[1]

\* The glyph call made for the letter.
EmissionMut(letter, draw_as_text) ==
    IF draw_as_text THEN "show_text" ELSE "text_path"
Emission(letter, draw_as_text) ==
    IF isspace(letter) THEN "none"
    ELSE IF draw_as_text THEN "show_text" ELSE "text_path"

\* if not text_path: surface.cursor_position = cursor_position
CommitCursorMut(text_path, old_cursor, cursor_position) == cursor_position
CommitCursor(text_path, old_cursor, cursor_position) ==
    IF text_path = "" THEN cursor_position ELSE old_cursor

\* The cursor a node without text leaves.
NoTextCursorMut(x, y, dx, dy, cursor_position) ==
    <<(IF x /= <<>> /\ x[1] /= 0 THEN x[1] ELSE cursor_position[1])
        + (IF dx /= <<>> THEN dx[1] ELSE 0),
      (IF y /= <<>> /\ y[1] /= 0 THEN y[1] ELSE cursor_position[2])
        + (IF dy /= <<>> THEN dy[1] ELSE 0)>>
NoTextCursor(x, y, dx, dy, cursor_position) ==
    <<(IF x /= <<>> THEN x[1] ELSE cursor_position[1])
        + (IF dx /= <<>> THEN dx[1] ELSE 0),
      (IF y /= <<>> THEN y[1] ELSE cursor_position[2])
        + (IF dy /= <<>> THEN dy[1] ELSE 0)>>

-----------------------------------------------------------------------------
(* The documents rendered *)

NoOffset == [unit |-> "", v |-> 0]

BaseNode ==
    [tag |-> "text", text |-> <<>>, parent |-> 0, children |-> <<>>,
     font |-> HorizontalFont,
     x |-> <<>>, y |-> <<>>, dx |-> <<>>, dy |-> <<>>, rotate |-> <<>>,
     text_anchor |-> "", letter_spacing |-> 0,
     display_anchor |-> "", dominant_baseline |-> "",
     alignment_baseline |-> "",
     href |-> "", startOffset |-> NoOffset,
     text_bounding_box |-> EMPTY_BOUNDING_BOX]

\* A document that is one chain of elements, the first being the root and
\* each of the others the only child of the one before it.
Chain(nodes) ==
    [k \in 1..Len(nodes) |->
        [nodes[k] EXCEPT !.parent = k - 1,
                         !.children = IF k < Len(nodes) THEN <<k + 1>>
                                      ELSE <<>>]]
Under(parent, node) == Chain(<<parent, node>>)

SvgRoot == [BaseNode EXCEPT !.tag = "svg"]

Texts == UNION {[1..n -> Letters] : n \in 0..MaxLen}

\* Free placement: a text element under the root, with its position lists.
FreeNodes ==
    {[BaseNode EXCEPT !.text = t, !.x = xy[1], !.y = xy[2], !.dx = dx] :
        t \in Texts,
        xy \in {<<<<>>, <<>>>>, <<<<0>>, <<>>>>, <<<<Fx(5)>>, <<>>>>,
                <<<<Fx(5)>>, <<Fx(7)>>>>},
        dx \in {<<>>, <<Fx(1), Fx(1)>>}}
    \cup
    {[BaseNode EXCEPT !.text = t, !.y = y, !.dy = <<Fx(2)>>] :
        t \in Texts,
        y \in {<<>>, <<0>>, <<Fx(7)>>}}
SpacedNodes ==
    {[BaseNode EXCEPT !.text = t, !.x = x, !.letter_spacing = Fx(1)] :
        t \in Texts, x \in {<<>>, <<Fx(5)>>}}
RotatedNodes ==
    {[BaseNode EXCEPT !.text = t, !.rotate = r] :
        t \in Texts, r \in {<<30>>, <<30, 60>>}}

\* Anchored and vertically aligned text that also carries deltas.
AlignedNodes ==
    {[BaseNode EXCEPT !.text = t, !.text_anchor = "end",
                      !.display_anchor = "top",
                      !.dx = <<Fx(1)>>, !.dy = <<Fx(2)>>] : t \in Texts}

FreeTargets ==
    {[doc |-> Under(SvgRoot, n), nid |-> 2, draw_as_text |-> b] :
        n \in FreeNodes \cup SpacedNodes \cup AlignedNodes,
        b \in {FALSE}}
    \cup {[doc |-> Under(SvgRoot, n), nid |-> 2, draw_as_text |-> TRUE] :
        n \in RotatedNodes}

\* Text on a path: a textPath element that refers to the registered path,
\* under a text element, or a tspan inside such a textPath.
Offsets == {NoOffset, [unit |-> "", v |-> Fx(2)]}
WholeLength == [unit |-> "%", v |-> 100]

TextPathNodes ==
    {[BaseNode EXCEPT !.tag = "textPath", !.href = "#p", !.text = t,
                      !.startOffset = o, !.text_anchor = a,
                      !.letter_spacing = ls] :
        t \in Texts, o \in Offsets, a \in {"", "middle", "end"},
        ls \in {0, Fx(1)}}
    \cup
    {[BaseNode EXCEPT !.tag = "textPath", !.href = "#p", !.text = t,
                      !.startOffset = o, !.x = x, !.dx = <<Fx(1)>>] :
        t \in Texts, o \in Offsets \cup {WholeLength},
        x \in {<<>>, <<Fx(5)>>}}
TspanNodes ==
    {[BaseNode EXCEPT !.tag = "tspan", !.text = t, !.startOffset = o,
                      !.text_anchor = a, !.letter_spacing = ls] :
        t \in Texts, o \in Offsets, a \in {"", "middle"},
        ls \in {0, Fx(1)}}
\* A reference that names no registered path, or no fragment at all.
UnresolvedNodes ==
    {[BaseNode EXCEPT !.tag = "textPath", !.href = h, !.text = t] :
        t \in Texts, h \in {"#q", "other.svg"}}
\* A tspan whose parent carries such a reference.
UnresolvedElement == [BaseNode EXCEPT !.tag = "textPath", !.href = "#q"]
OrphanNodes ==
    {[BaseNode EXCEPT !.tag = "tspan", !.text = t] : t \in Texts}
\* Text elements drawn before the path is entered.
LeadNodes ==
    {[BaseNode EXCEPT !.text = t, !.x = x, !.dx = dx] :
        t \in {<<>>, <<"A">>},
        x \in {<<>>, <<Fx(5)>>},
        dx \in {<<>>, <<Fx(1)>>}}

TextElement == BaseNode
TextPathElement == [BaseNode EXCEPT !.tag = "textPath", !.href = "#p"]

PathTargets ==
    {[doc |-> Under(TextElement, n), nid |-> 2, draw_as_text |-> b] :
        n \in TextPathNodes \cup UnresolvedNodes, b \in {FALSE}}
    \cup
    {[doc |-> Under(TextElement, n), nid |-> 2, draw_as_text |-> TRUE] :
        n \in UnresolvedNodes}
    \cup
    {[doc |-> Chain(<<TextElement, UnresolvedElement, n>>), nid |-> 3,
      draw_as_text |-> FALSE] : n \in OrphanNodes}
    \cup
    {[doc |-> Chain(<<TextElement, TextPathElement, n>>), nid |-> 3,
      draw_as_text |-> TRUE] : n \in TspanNodes}
    \cup
    {[doc |-> Under(SvgRoot, n), nid |-> 2, draw_as_text |-> FALSE] :
        n \in LeadNodes}

\* Vertical alignment: every font, display-anchor and baseline value, on a
\* text element with or without text, after text elements that leave a
\* cursor and a delta behind.
Fonts == {HorizontalFont, VerticalFont, UprightFont, EmptyFont}
DisplayAnchors == {"", "middle", "top", "bottom"}
Baselines ==
    {"", "central", "middle",
     "text-before-edge", "before_edge", "top", "hanging", "text-top",
     "text-after-edge", "after_edge", "bottom", "text-bottom",
     "alphabetic"}
BaselineNodes ==
    {[BaseNode EXCEPT !.text = t, !.font = f, !.display_anchor = d,
                      !.dominant_baseline = b, !.alignment_baseline = a] :
        t \in {<<>>, <<"A">>}, f \in Fonts, d \in DisplayAnchors,
        b \in Baselines, a \in Baselines}
    \cup
    {[BaseNode EXCEPT !.text = <<"A">>, !.y = <<Fx(7)>>, !.dy = <<Fx(2)>>]}

BaselineTargets ==
    {[doc |-> Under(SvgRoot, n), nid |-> 2, draw_as_text |-> TRUE] :
        n \in BaselineNodes}

Targets(p) ==
    IF p = "free" THEN FreeTargets
    ELSE IF p = "path" THEN PathTargets
    ELSE IF p = "baseline" THEN BaselineTargets
    ELSE {}

-----------------------------------------------------------------------------
(* text() as a state machine *)

NoLoc ==
    [draw_as_text |-> FALSE, letter_spacing |-> 0,
     x_bearing |-> 0, y_bearing |-> 0, width |-> 0, height |-> 0,
     last_r |-> 0, x_align |-> 0, y_align |-> 0,
     text_path |-> "", cairo_path |-> <<>>, length |-> 0, start_offset |-> 0,
     drew_path |-> FALSE,
     entry |-> [cursor_position |-> <<0, 0>>, cursor_d_position |-> <<0, 0>>,
                text_path_width |-> 0]]

NoLp == [x |-> <<>>, y |-> <<>>, dx |-> <<>>, dy |-> <<>>, rotate |-> <<>>]

NoPos == [x |-> None, y |-> None, dx |-> None, dy |-> None, r |-> None]

NoLast ==
    [branch |-> "none", k |-> 0, letter |-> "", pos |-> NoPos,
     before |-> [cursor_position |-> <<0, 0>>, cursor_d_position |-> <<0, 0>>,
                 text_path_width |-> 0],
     box_before |-> EMPTY_BOUNDING_BOX,
     extents |-> 0, start |-> 0, middle |-> 0, end |-> 0,
     start_point |-> None, middle_point |-> None, end_point |-> None,
     move_to |-> None, pen |-> None, translate |-> None, chord |-> None,
     rotate |-> 0, points |-> {}, cursor_position |-> None,
     emit |-> "none"]

InitSurface ==
    [cursor_position |-> <<0, 0>>, cursor_d_position |-> <<0, 0>>,
     text_path_width |-> 0]

NoSample ==
    [pc |-> "off", path |-> <<>>, width |-> 0, length |-> 0, point |-> None]
NoAnchor ==
    [pc |-> "off", text_anchor |-> "", width |-> 0, x_bearing |-> 0,
     letter_spacing |-> 0, text |-> <<>>, x_align |-> 0]
NoExtents ==
    [pc |-> "off", doc |-> <<>>, node |-> 0, parent_text_node |-> 0,
     steps |-> 0, order |-> <<>>, extents |-> <<0, 0, 0, 0, 0, 0>>]

InitMachine(p) ==
    /\ profile = p
    /\ pc = "idle"
    /\ surface = InitSurface
    /\ depth = 0
    /\ doc = <<>>
    /\ nid = 0
    /\ loc = NoLoc
    /\ lp = NoLp
    /\ i = 0
    /\ bounding_box = EMPTY_BOUNDING_BOX
    /\ last = NoLast
    /\ nodes_done = 0

\* Lines 107-201: the call, up to the loop.
TextSetup ==
    /\ pc = "idle"
    /\ nodes_done < MaxNodes
    /\ \E t \in Targets(profile) :
        LET node == t.doc[t.nid]
            fe == font_extents(node)
            text_path == text_path_of(t.doc, t.nid)
            ext == get_node_text_extents(t.doc, t.nid)
            x_bearing == ext[1]
            y_bearing == ext[2]
            width == ext[3]
            height == ext[4]
            rotate == rotate_list(node)
            x_align == XAlign(node.text_anchor, width, x_bearing,
                              node.letter_spacing, node.text)
            y_align == YAlign(fe, node.display_anchor, Baseline(node),
                              height, y_bearing)
            cairo_path == IF text_path /= "" THEN cairo_path_of(text_path)
                          ELSE <<>>
            length == IF text_path /= ""
                      THEN path_length(cairo_path) + x_bearing ELSE 0
            start_offset == IF text_path /= ""
                            THEN size(node.startOffset, length) ELSE 0
        IN  /\ doc' = t.doc
            /\ nid' = t.nid
            /\ lp' = [x |-> node.x, y |-> node.y, dx |-> node.dx,
                      dy |-> node.dy, rotate |-> rotate]
            /\ loc' = [draw_as_text |-> t.draw_as_text,
                       letter_spacing |-> node.letter_spacing,
                       x_bearing |-> x_bearing, y_bearing |-> y_bearing,
                       width |-> width, height |-> height,
                       last_r |-> rotate[Len(rotate)],
                       x_align |-> x_align, y_align |-> y_align,
                       text_path |-> text_path, cairo_path |-> cairo_path,
                       length |-> length, start_offset |-> start_offset,
                       drew_path |-> text_path /= "",
                       entry |-> surface]
            /\ surface' =
                IF text_path /= ""
                THEN [surface EXCEPT !.text_path_width =
                        PathWidthAtStart(node.tag, @, start_offset, x_align)]
                ELSE surface
            /\ bounding_box' =
                IF text_path /= ""
                THEN extend_bounding_box(EMPTY_BOUNDING_BOX,
                                         {<<start_offset, 0>>})
                ELSE EMPTY_BOUNDING_BOX
    /\ i' = 0
    /\ last' = NoLast
    /\ pc' = "body"
    /\ UNCHANGED <<sp, al, ex, profile, depth, nodes_done>>

\* Lines 204-254: one character, up to its glyph call; a character that is
\* skipped on a path ends its turn here.
LetterPlace ==
    /\ pc = "body"
    /\ i < Len(doc[nid].text)
    /\ LET node == doc[nid]
           letter == node.text[i + 1]
           pos == zip_letters_head(lp)
           cdp == <<AddDelta(ResetDelta(surface.cursor_d_position[1], pos.x),
                             pos.dx),
                    AddDelta(ResetDelta(surface.cursor_d_position[2], pos.y),
                             pos.dy)>>
           text_extents_letter == text_extents(<<letter>>)
           extents == text_extents_letter[5]
           \* path-following
           start == PathStart(surface.text_path_width, cdp[1])
           start_point == point_following_path(loc.cairo_path, start)
           middle == start + Half(extents)
           middle_point == point_following_path(loc.cairo_path, middle)
           end == start + extents
           end_point == point_following_path(loc.cairo_path, end)
           advance == PathAdvance(i, extents, loc.letter_spacing)
           skipped == PathSkip(start_point, middle_point, end_point,
                               middle, loc.length)
           \* free placement
           x == FreeX(pos.x, surface.cursor_position[1], i,
                      loc.letter_spacing)
           y == FreeY(pos.y, surface.cursor_position[2])
           cursor_position == <<x + extents, y>>
           corner == <<cursor_position[1] + loc.x_align + cdp[1],
                       cursor_position[2] + loc.y_align + cdp[2]>>
           points == {corner,
                      <<corner[1] + text_extents_letter[5],
                        corner[2] + text_extents_letter[4]>>}
           seen == [NoLast EXCEPT !.k = i, !.letter = letter, !.pos = pos,
                                  !.before = surface,
                                  !.box_before = bounding_box,
                                  !.extents = extents]
       IN  /\ lp' = zip_letters_rest(lp)
           /\ IF loc.text_path /= ""
              THEN /\ surface' = [surface EXCEPT
                          !.cursor_d_position = cdp,
                          !.text_path_width = @ + advance]
                   /\ depth' = DepthPlaced(depth, skipped)
                   /\ IF skipped
                      THEN /\ last' = [seen EXCEPT
                                  !.branch = "skipped", !.start = start,
                                  !.middle = middle, !.end = end,
                                  !.start_point = start_point,
                                  !.middle_point = middle_point,
                                  !.end_point = end_point]
                           /\ bounding_box' = bounding_box
                           /\ i' = i + 1
                           /\ pc' = "body"
                      ELSE /\ last' = [seen EXCEPT
                                  !.branch = "path", !.start = start,
                                  !.middle = middle, !.end = end,
                                  !.start_point = start_point,
                                  !.middle_point = middle_point,
                                  !.end_point = end_point,
                                  !.translate = start_point,
                                  !.chord = <<start_point, end_point>>,
                                  !.move_to = <<0, cdp[2]>>,
                                  !.pen = <<0, cdp[2]>>,
                                  !.points = {<<end_point[1],
                                                text_extents_letter[4]>>},
                                  !.emit = "pending"]
                           /\ bounding_box' = extend_bounding_box(
                                  bounding_box,
                                  {<<end_point[1], text_extents_letter[4]>>})
                           /\ i' = i
                           /\ pc' = "emit"
              ELSE /\ surface' = [surface EXCEPT !.cursor_d_position = cdp]
                   /\ depth' = DepthPlaced(depth, FALSE)
                   /\ last' = [seen EXCEPT
                          !.branch = "free",
                          !.move_to = <<x, y>>,
                          !.pen = <<x + cdp[1] + loc.x_align,
                                    y + cdp[2] + loc.y_align>>,
                          !.rotate = Rotation(pos.r, loc.last_r),
                          !.points = points,
                          !.cursor_position = cursor_position,
                          !.emit = "pending"]
                   /\ bounding_box' = extend_bounding_box(bounding_box, points)
                   /\ i' = i
                   /\ pc' = "emit"
    /\ UNCHANGED <<sp, al, ex, profile, doc, nid, loc, nodes_done>>

\* Lines 256-264: the glyph call, the restore and the cursor.
LetterEmit ==
    /\ pc = "emit"
    /\ last' = [last EXCEPT !.emit = Emission(last.letter, loc.draw_as_text)]
    /\ depth' = depth - 1
    /\ surface' = [surface EXCEPT !.cursor_position =
            CommitCursor(loc.text_path, @, last.cursor_position)]
    /\ i' = i + 1
    /\ pc' = "body"
    /\ UNCHANGED <<sp, al, ex, profile, doc, nid, loc, lp, bounding_box,
                   nodes_done>>

\* Lines 265-274: a node without text moves the cursor, and stores its box.
NoText ==
    /\ pc = "body"
    /\ doc[nid].text = <<>>
    /\ surface' = [surface EXCEPT !.cursor_position =
            NoTextCursor(lp.x, lp.y, lp.dx, lp.dy, surface.cursor_position)]
    /\ doc' = IF is_valid_bounding_box(bounding_box)
              THEN [doc EXCEPT ![nid].text_bounding_box = bounding_box]
              ELSE doc
    /\ pc' = "done"
    /\ UNCHANGED <<sp, al, ex, profile, depth, nid, loc, lp, i, bounding_box, last,
                   nodes_done>>

\* Lines 272-274 after the loop: the box is stored in the node.
LoopEnd ==
    /\ pc = "body"
    /\ doc[nid].text /= <<>>
    /\ i = Len(doc[nid].text)
    /\ doc' = IF is_valid_bounding_box(bounding_box)
              THEN [doc EXCEPT ![nid].text_bounding_box = bounding_box]
              ELSE doc
    /\ pc' = "done"
    /\ UNCHANGED <<sp, al, ex, profile, surface, depth, nid, loc, lp, i,
                   bounding_box, last, nodes_done>>

\* text() returns: its locals are gone, the surface stays.
Return ==
    /\ pc = "done"
    /\ pc' = "idle"
    /\ doc' = <<>>
    /\ nid' = 0
    /\ loc' = NoLoc
    /\ lp' = NoLp
    /\ i' = 0
    /\ bounding_box' = EMPTY_BOUNDING_BOX
    /\ last' = NoLast
    /\ nodes_done' = nodes_done + 1
    /\ UNCHANGED <<sp, al, ex, profile, surface, depth>>

Next == TextSetup \/ LetterPlace \/ LetterEmit \/ NoText \/ LoopEnd \/ Return

mvars == <<profile, pc, surface, depth, doc, nid, loc, lp, i, bounding_box,
           last, nodes_done>>
vars == <<sp, al, ex, mvars>>

\* Free placement: text elements with position lists, spacing and rotation.
Init == sp = NoSample /\ al = NoAnchor /\ ex = NoExtents /\ InitMachine("free")
Spec == Init /\ [][Next]_vars

\* Text on a path, after text elements that may leave a delta behind.
InitOnPath == sp = NoSample /\ al = NoAnchor /\ ex = NoExtents /\ InitMachine("path")
SpecOnPath == InitOnPath /\ [][Next]_vars

\* Vertical alignment under every font model and attribute value.
InitBaseline == sp = NoSample /\ al = NoAnchor /\ ex = NoExtents /\ InitMachine("baseline")
SpecBaseline == InitBaseline /\ [][Next]_vars

-----------------------------------------------------------------------------
(* The paths and distances the sampler is called with *)

GridPoints == (0..Grid) \X (0..Grid)
PathItems == {PATH_MOVE_TO, PATH_LINE_TO} \X GridPoints

\* A flattened path starts with a MoveTo (cairo never yields a LineTo without
\* a current point) and each of its lines is parallel to an axis.
RECURSIVE AxisAligned(_, _)
AxisAligned(path, k) ==
    \/ k > Len(path)
    \/ /\ \/ path[k][1] = PATH_MOVE_TO
          \/ path[k - 1][2][1] = path[k][2][1]
          \/ path[k - 1][2][2] = path[k][2][2]
       /\ AxisAligned(path, k + 1)

PathsOfLen(n) ==
    {p \in [1..n -> PathItems] : p[1][1] = PATH_MOVE_TO /\ AxisAligned(p, 2)}

Paths == UNION {PathsOfLen(n) : n \in 1..MaxSegs}

\* The distances asked for: from before the start to past the end.
WidthsOf(path) == (-1)..(path_length(path) + 1)

InitPath ==
    /\ \E path \in Paths : \E width \in WidthsOf(path) :
        sp = [pc |-> "call", path |-> path, width |-> width,
              length |-> 0, point |-> None]
    /\ al = NoAnchor
    /\ ex = NoExtents
    /\ InitMachine("off")

\* One call of path_length and of point_following_path on the same path.
SamplePath ==
    /\ sp.pc = "call"
    /\ sp' = [sp EXCEPT !.pc = "ret",
                        !.length = path_length(sp.path),
                        !.point = point_following_path(sp.path, sp.width)]
    /\ UNCHANGED <<al, ex, mvars>>

NextPath == SamplePath

SpecPath == InitPath /\ [][NextPath]_vars

-----------------------------------------------------------------------------
(* The anchor alignment as a function of what was measured *)

AnchorWidths == {0, Fx(3), Fx(40)}
AnchorBearings == {Fx(-1), 0, Fx(2)}
AnchorSpacings == {Fx(-1), 0, Fx(1)}
TextOfLen(n) == [k \in 1..n |-> "A"]

InitAnchor ==
    /\ \E a \in {"", "start", "middle", "end"}, w \in AnchorWidths,
          b \in AnchorBearings, ls \in AnchorSpacings, n \in 0..MaxChars :
        al = [pc |-> "call", text_anchor |-> a, width |-> w, x_bearing |-> b,
              letter_spacing |-> ls, text |-> TextOfLen(n), x_align |-> 0]
    /\ sp = NoSample
    /\ ex = NoExtents
    /\ InitMachine("off")

\* Lines 141-152 on their own.
AlignAnchor ==
    /\ al.pc = "call"
    /\ al' = [al EXCEPT !.pc = "ret",
                        !.x_align = XAlign(al.text_anchor, al.width,
                                           al.x_bearing, al.letter_spacing,
                                           al.text)]
    /\ UNCHANGED <<sp, ex, mvars>>

NextAnchor == AlignAnchor

SpecAnchor == InitAnchor /\ [][NextAnchor]_vars

-----------------------------------------------------------------------------
(* The trees get_node_text_extents is called on *)

TreeTags == {"svg", "text", "tspan"}
TreeTexts == {<<"A">>, <<" ">>}

RECURSIVE ReachesRoot(_, _, _)
\* Following parent from k arrives at node 1 within the given steps.
ReachesRoot(parent, k, steps) ==
    \/ k = 1
    \/ steps > 0 /\ ReachesRoot(parent, parent[k], steps - 1)

\* The parent of every node of a tree of n nodes whose root is node 1.
TreeShapes(n) ==
    {parent \in [1..n -> 0..n] :
        /\ parent[1] = 0
        /\ \A k \in 2..n : parent[k] \notin {0, k}
        /\ \A k \in 2..n : ReachesRoot(parent, k, n)}

RECURSIVE Ascending(_)
Ascending(S) ==
    IF S = {} THEN <<>>
    ELSE LET m == CHOOSE v \in S : \A w \in S : v <= w
         IN  <<m>> \o Ascending(S \ {m})

\* The trees of one shape: every tagging and every text of its nodes, a
\* node being what the aggregator reads of it.
TreesWith(n, parent) ==
    LET children == [k \in 1..n |-> Ascending({c \in 1..n : parent[c] = k})]
    IN  {[k \in 1..n |->
            [tag |-> tags[k], text |-> texts[k], parent |-> parent[k],
             children |-> children[k]]] :
            tags \in [1..n -> TreeTags],
            texts \in [1..n -> TreeTexts]}

TreesOf(n) == UNION {TreesWith(n, parent) : parent \in TreeShapes(n)}

\* The trees of at most n nodes.
Trees(n) == UNION {TreesOf(k) : k \in 1..n}

InitExtents ==
    /\ \E d \in Trees(MaxTree) : \E n \in 1..Len(d) :
        ex = [pc |-> "walk", doc |-> d, node |-> n, parent_text_node |-> n,
              steps |-> 0, order |-> <<>>, extents |-> <<0, 0, 0, 0, 0, 0>>]
    /\ sp = NoSample
    /\ al = NoAnchor
    /\ InitMachine("off")

\* Lines 90-91: one turn of the walk towards the root.
ExtentsWalk ==
    /\ ex.pc = "walk"
    /\ WalksUp(ex.doc, ex.parent_text_node)
    /\ ex' = [ex EXCEPT !.parent_text_node = ex.doc[@].parent,
                        !.steps = @ + 1]
    /\ UNCHANGED <<sp, al, mvars>>

\* Lines 92-104: the walk is over, the extents are summed and returned.
ExtentsSum ==
    /\ ex.pc = "walk"
    /\ ~WalksUp(ex.doc, ex.parent_text_node)
    /\ LET top == ex.parent_text_node
           parent_text_node == text_container(ex.doc, ex.node, top)
       IN  ex' = [ex EXCEPT
                    !.pc = "ret",
                    !.parent_text_node = parent_text_node,
                    !.order = iter_nodes(ex.doc, parent_text_node),
                    !.extents = extents_below(ex.doc, ex.node, top)]
    /\ UNCHANGED <<sp, al, mvars>>

NextExtents == ExtentsWalk \/ ExtentsSum

SpecExtents == InitExtents /\ [][NextExtents]_vars

-----------------------------------------------------------------------------
(* Claims about the path sampler, checked under SpecPath *)

FirstPoint(path) == path[1][2]
LastPoint(path) == path[Len(path)][2]
\* One MoveTo followed by at least one LineTo.
SingleSubpath(path) ==
    /\ Len(path) >= 2
    /\ \A k \in 2..Len(path) : path[k][1] = PATH_LINE_TO

\* C9 as stated: on every MoveTo/LineTo path, the point at distance 0 is the
\* path's first point, the point at distance path_length(path) is its last
\* point, and there is no point at any distance beyond path_length(path).
C9_EveryPath ==
    sp.pc = "ret" =>
        /\ sp.width = 0 => sp.point = FirstPoint(sp.path)
        /\ sp.width = sp.length => sp.point = LastPoint(sp.path)
        /\ sp.width > sp.length => sp.point = None

\* C9 amended: the first and last point are returned on every path made of
\* one MoveTo followed by at least one LineTo; on every MoveTo/LineTo path
\* there is no point at any distance beyond path_length(path).
C9_SingleSubpath ==
    sp.pc = "ret" =>
        /\ SingleSubpath(sp.path) =>
            /\ sp.width = 0 => sp.point = FirstPoint(sp.path)
            /\ sp.width = sp.length => sp.point = LastPoint(sp.path)
        /\ sp.width > sp.length => sp.point = None

\* A three-segment single subpath sampled at its full, non-zero length.
C9_Witness ==
    /\ sp.pc = "ret"
    /\ SingleSubpath(sp.path)
    /\ Len(sp.path) = 3
    /\ sp.length > 1
    /\ sp.width = sp.length
    /\ sp.point = LastPoint(sp.path)
    /\ LastPoint(sp.path) /= FirstPoint(sp.path)

-----------------------------------------------------------------------------
(* Claims about free placement, checked under Spec *)

Node == doc[nid]
Placed == last.branch /= "none"
OrZero(o) == IF o = None THEN 0 ELSE o[1]

\* C3 as stated: a character with an explicit x, 0 included, leaves
\* cursor_d_position[0] at exactly its dx (or 0), and a character without x
\* leaves it at its previous value plus dx; the same for y and dy.
C3_ExplicitResets ==
    Placed =>
        /\ surface.cursor_d_position[1] =
            (IF last.pos.x /= None THEN 0
             ELSE last.before.cursor_d_position[1]) + OrZero(last.pos.dx)
        /\ surface.cursor_d_position[2] =
            (IF last.pos.y /= None THEN 0
             ELSE last.before.cursor_d_position[2]) + OrZero(last.pos.dy)

\* The case of C4: free placement, only the first character's x and y given,
\* both non-zero, no dx, dy, letter spacing, anchor or vertical alignment.
C4_Case ==
    /\ pc /= "idle"
    /\ loc.text_path = ""
    /\ Len(Node.x) = 1 /\ Node.x[1] /= 0
    /\ Len(Node.y) = 1 /\ Node.y[1] /= 0
    /\ Node.dx = <<>> /\ Node.dy = <<>>
    /\ loc.letter_spacing = 0
    /\ Node.text_anchor \notin {"middle", "end"}
    /\ loc.y_align = 0

\* C4: in that case character i has its pen at (x0 + the advances of the
\* characters before it, y0), and the node leaves the cursor at (x0 + the
\* advances of all its characters, y0).
C4_PenFollowsAdvances ==
    C4_Case =>
        /\ Placed =>
            /\ last.branch = "free"
            /\ last.pen = <<Node.x[1] + SumAdvance(Node.text, last.k),
                            Node.y[1]>>
        /\ (pc = "done" /\ Node.text /= <<>>) =>
            surface.cursor_position =
                <<Node.x[1] + SumAdvance(Node.text, Len(Node.text)),
                  Node.y[1]>>

\* The second of at least two characters is placed after a node that left a
\* delta behind.
C4_Witness ==
    /\ C4_Case
    /\ last.branch = "free"
    /\ last.k = 1
    /\ loc.entry.cursor_d_position /= <<0, 0>>
    /\ last.pen = <<Node.x[1] + GlyphAdvance(Node.text[1]), Node.y[1]>>

\* C5: a node without text makes no save, restore or glyph call, leaves
\* cursor_d_position alone and sets the cursor to (X + first dx, Y + first
\* dy), X being the first x when the list is not empty, 0 included, and the
\* previous cursor's x otherwise, Y likewise.
C5_NoTextCursor ==
    (pc = "done" /\ Node.text = <<>>) =>
        /\ ~Placed
        /\ depth = 0
        /\ surface.cursor_d_position = loc.entry.cursor_d_position
        /\ surface.cursor_position =
            <<(IF Node.x /= <<>> THEN Node.x[1]
               ELSE loc.entry.cursor_position[1])
                + (IF Node.dx /= <<>> THEN Node.dx[1] ELSE 0),
              (IF Node.y /= <<>> THEN Node.y[1]
               ELSE loc.entry.cursor_position[2])
                + (IF Node.dy /= <<>> THEN Node.dy[1] ELSE 0)>>

\* A node without text and with x = 0 is drawn when the cursor is elsewhere.
C5_Witness ==
    /\ pc = "done"
    /\ Node.text = <<>>
    /\ Node.x = <<0>>
    /\ loc.entry.cursor_position[1] /= 0
    /\ surface.cursor_position[1] = OrZero(Pop(Node.dx))

\* C8: in free placement a character within the rotate list is rotated by
\* its own value, a character past the list's end by the list's last value,
\* and every character by 0 when there is no rotate attribute.
C8_RotationPersists ==
    last.branch = "free" =>
        last.rotate =
            IF Node.rotate = <<>> THEN 0
            ELSE IF last.k < Len(Node.rotate) THEN Node.rotate[last.k + 1]
            ELSE Node.rotate[Len(Node.rotate)]

\* A character past the end of a one-element rotate list.
C8_Witness ==
    /\ last.branch = "free"
    /\ Len(Node.rotate) = 1
    /\ last.k >= 1
    /\ last.rotate = Node.rotate[1]
    /\ last.rotate /= 0

-----------------------------------------------------------------------------
(* Claims about text on a path, checked under SpecOnPath *)

OnPath == last.branch \in {"path", "skipped"}

\* C1: a save is open exactly between a character's placement and its glyph
\* call, which ends with the restore: at every other point of text(), after
\* a character that was drawn, a whitespace character, a character skipped
\* on its path, and after any number of nodes, every save has been restored.
C1_SavesPaired == depth = (IF pc = "emit" THEN 1 ELSE 0)

\* A character of a later node is skipped on the path after an earlier one
\* of the same node was drawn.
C1_Witness ==
    /\ last.branch = "skipped"
    /\ last.k >= 1
    /\ nodes_done >= 1
    /\ is_valid_bounding_box(bounding_box \ {<<loc.start_offset, 0>>})
    /\ depth = 0

\* C2: a character on a path with one of its three samples missing, or with
\* middle outside [0, length], gets no glyph call and no bounding-box point,
\* and text_path_width still grows by its advance, plus the letter spacing
\* unless it is the node's first character.
C2_SkippedStillAdvances ==
    (/\ OnPath
     /\ \/ last.start_point = None
        \/ last.middle_point = None
        \/ last.end_point = None
        \/ last.middle < 0
        \/ last.middle > loc.length) =>
        /\ last.branch = "skipped"
        /\ last.emit = "none"
        /\ last.points = {}
        /\ bounding_box = last.box_before
        /\ surface.text_path_width =
            last.before.text_path_width + last.extents
            + (IF last.k > 0 THEN loc.letter_spacing ELSE 0)

\* A spaced character that is not the first has its three samples and is
\* skipped for its middle alone.
C2_Witness ==
    /\ last.branch = "skipped"
    /\ last.k > 0
    /\ loc.letter_spacing /= 0
    /\ last.start_point /= None
    /\ last.middle_point /= None
    /\ last.end_point /= None
    /\ last.middle < 0
    /\ surface.text_path_width =
        last.before.text_path_width + last.extents + loc.letter_spacing

\* The first character of a textPath element entered with text_path_width
\* at 0, without text-anchor and without dx.
C10_FirstOfTextPath ==
    /\ OnPath
    /\ last.k = 0
    /\ Node.tag = "textPath"
    /\ loc.entry.text_path_width = 0
    /\ Node.text_anchor \notin {"middle", "end"}
    /\ Node.dx = <<>>
\* The first character of a node on a path that is no textPath element.
C10_FirstOfOther ==
    /\ OnPath
    /\ last.k = 0
    /\ Node.tag /= "textPath"

\* C10 as stated: the first start sample of such a textPath element is at
\* startOffset exactly; that of another node on a path is at the
\* text_path_width the node was entered with plus x_align.
C10_StartAtOffset ==
    /\ C10_FirstOfTextPath => last.start = loc.start_offset
    /\ C10_FirstOfOther =>
        last.start = loc.entry.text_path_width + loc.x_align

\* C10 amended: both start samples are further shifted by
\* cursor_d_position[0] as the first character leaves it, so the textPath's
\* is at startOffset exactly when no delta was carried into the node.
C10_StartAtOffsetPlusDelta ==
    /\ C10_FirstOfTextPath =>
        /\ last.start = loc.start_offset + surface.cursor_d_position[1]
        /\ loc.entry.cursor_d_position[1] = 0 =>
            last.start = loc.start_offset
    /\ C10_FirstOfOther =>
        last.start = loc.entry.text_path_width + loc.x_align
                     + surface.cursor_d_position[1]

\* A textPath with a start offset is entered with a delta left by an
\* earlier node.
C10_Witness ==
    /\ C10_FirstOfTextPath
    /\ loc.start_offset = Fx(2)
    /\ loc.entry.cursor_d_position[1] /= 0
    /\ last.start = loc.start_offset + loc.entry.cursor_d_position[1]

-----------------------------------------------------------------------------
(* Claims about the alignments, checked under SpecBaseline and SpecAnchor *)

\* C6: when the font's metrics are not max_x_advance > 0 and
\* max_y_advance = 0, y_align is 0 whatever display-anchor,
\* dominant-baseline and alignment-baseline say, and the pen of a character
\* in free placement is at y + cursor_d_position[1].
C6_NoVerticalAlign ==
    (/\ pc /= "idle"
     /\ ~(font_extents(Node)[4] > 0 /\ font_extents(Node)[5] = 0)) =>
        /\ loc.y_align = 0
        /\ last.branch = "free" =>
            last.pen[2] = last.move_to[2] + surface.cursor_d_position[2]

\* A character is placed under a font with max_y_advance > 0 and with
\* display-anchor and dominant-baseline both set, a delta being in force.
C6_Witness ==
    /\ last.branch = "free"
    /\ font_extents(Node)[4] > 0
    /\ font_extents(Node)[5] > 0
    /\ Node.display_anchor = "top"
    /\ Node.dominant_baseline = "central"
    /\ surface.cursor_d_position[2] /= 0
    /\ last.pen[2] = last.move_to[2] + surface.cursor_d_position[2]

\* C7: for text of n >= 1 characters, text-anchor middle gives
\* x_align = -(width/2 + x_bearing) - (n-1)*letter_spacing/2 (stated
\* doubled), end gives -(width + x_bearing) - (n-1)*letter_spacing, anything
\* else 0; empty text has no spacing term; width 40, x_bearing 2, n 3 and
\* letter_spacing 1 give -23 and -44.
C7_AnchorAlign ==
    al.pc = "ret" =>
        LET n == Len(al.text)
            term == IF n >= 1 THEN (n - 1) * al.letter_spacing ELSE 0
        IN  /\ al.text_anchor = "middle" =>
                2 * al.x_align = -(al.width + 2 * al.x_bearing) - term
            /\ al.text_anchor = "end" =>
                al.x_align = -(al.width + al.x_bearing) - term
            /\ al.text_anchor \notin {"middle", "end"} => al.x_align = 0
            /\ (/\ al.width = Fx(40) /\ al.x_bearing = Fx(2)
                /\ n = 3 /\ al.letter_spacing = Fx(1)) =>
                /\ al.text_anchor = "middle" => al.x_align = Fx(-23)
                /\ al.text_anchor = "end" => al.x_align = Fx(-44)

\* The worked example, anchored at the end.
C7_Witness ==
    /\ al.pc = "ret"
    /\ al.text_anchor = "end"
    /\ al.width = Fx(40)
    /\ al.x_bearing = Fx(2)
    /\ Len(al.text) = 3
    /\ al.letter_spacing = Fx(1)
    /\ al.x_align = Fx(-44)


-----------------------------------------------------------------------------
(* Claims about path_length, checked under SpecPath *)

RECURSIVE LineSum(_, _)
\* The lengths of the LineTo segments among the first k items, each measured
\* from the item before it.
LineSum(path, k) ==
    IF k < 2 THEN 0
    ELSE LineSum(path, k - 1)
         + (IF path[k][1] = PATH_LINE_TO
            THEN distance(path[k - 1][2][1], path[k - 1][2][2],
                          path[k][2][1], path[k][2][2])
            ELSE 0)

HasLine(path) == \E k \in 1..Len(path) : path[k][1] = PATH_LINE_TO
\* A MoveTo that jumps away from the end of the subpath before it.
HasJump(path) ==
    \E k \in 2..Len(path) :
        path[k][1] = PATH_MOVE_TO /\ path[k][2] /= path[k - 1][2]

\* C11: path_length(path) is the sum, over the LineTo segments, of the
\* distance from the previous point of the same subpath to the LineTo point;
\* the jump to the next MoveTo adds nothing, and a path without a LineTo has
\* length 0.
C11_LengthIsLineSum ==
    sp.pc = "ret" =>
        /\ sp.length = LineSum(sp.path, Len(sp.path))
        /\ ~HasLine(sp.path) => sp.length = 0

\* A path of two subpaths, the first with a line, the second entered by a
\* jump: the length is that of the line alone.
C11_Witness ==
    /\ sp.pc = "ret"
    /\ HasLine(sp.path)
    /\ HasJump(sp.path)
    /\ sp.path[Len(sp.path)][1] = PATH_MOVE_TO
    /\ sp.length = 2


-----------------------------------------------------------------------------
(* Claims about the two cursors, checked under SpecOnPath *)

\* C12: a node touches only the cursor of its own placement mode: a node in
\* free placement leaves surface.text_path_width as it found it, and a node
\* with text that follows a path leaves surface.cursor_position as it found
\* it.
C12_OwnCursorOnly ==
    pc /= "idle" =>
        /\ loc.text_path = "" =>
                surface.text_path_width = loc.entry.text_path_width
        /\ loc.text_path /= "" /\ Node.text /= <<>> =>
                surface.cursor_position = loc.entry.cursor_position

\* A node on the path that has drawn its two characters and moved the path
\* cursor, after a node that left the shared cursor away from the origin.
C12_Witness ==
    /\ pc = "done"
    /\ OnPath
    /\ last.branch = "path"
    /\ last.k = 1
    /\ loc.entry.cursor_position /= <<0, 0>>
    /\ surface.text_path_width /= loc.entry.text_path_width


-----------------------------------------------------------------------------
(* Claims about letter spacing on a path, checked under SpecOnPath *)

\* The latest character followed a path, was not the first of its node, and
\* the node has a letter spacing.
C13_Case ==
    /\ OnPath
    /\ last.k > 0
    /\ loc.letter_spacing /= 0

\* C13 as stated: for a character on a path at index i > 0 with a non-zero
\* letter spacing, the end sample is taken at start + advance + letterSpacing,
\* the distance by which the path cursor moves, and the middle sample at
\* start + advance/2 with the advance as measured.
C13_EndAfterSpacing ==
    C13_Case =>
        /\ last.end = last.start + last.extents + loc.letter_spacing
        /\ last.middle = last.start + Half(last.extents)
        /\ surface.text_path_width =
               last.before.text_path_width + last.extents + loc.letter_spacing

\* C13 as amended: the end sample is taken at start + advance with the advance
\* as measured, the middle sample at start + advance/2, and the letter spacing
\* is only added afterwards, to the distance by which the path cursor moves.
C13_EndBeforeSpacing ==
    C13_Case =>
        /\ last.end = last.start + last.extents
        /\ last.end_point = point_following_path(loc.cairo_path, last.end)
        /\ last.middle = last.start + Half(last.extents)
        /\ last.middle_point = point_following_path(loc.cairo_path, last.middle)
        /\ surface.text_path_width =
               last.before.text_path_width + last.extents + loc.letter_spacing

\* A second character drawn on the path with a letter spacing: the point
\* one letter spacing further along the path is another one.
C13_Witness ==
    /\ C13_Case
    /\ last.branch = "path"
    /\ last.extents = text_extents(<<last.letter>>)[5]
    /\ point_following_path(loc.cairo_path, last.end + loc.letter_spacing)
           \notin {None, last.end_point}


-----------------------------------------------------------------------------
(* Claims about the glyph calls, checked under SpecOnPath *)

\* The glyph call a character is due: none for whitespace.
C14_Due ==
    IF last.letter = " " THEN "none"
    ELSE IF loc.draw_as_text THEN "show_text" ELSE "text_path"

\* C14: a whitespace character is measured and moves the cursor like any
\* other (in free placement the cursor becomes (x + advance, y), on a path the
\* path cursor grows by the advance, with the letter spacing when i > 0) but
\* no glyph call is made for it; every other character that is not skipped
\* gets exactly one glyph call, show_text when draw_as_text is set and
\* text_path otherwise.
C14_WhitespaceNotEmitted ==
    /\ last.branch = "skipped" => last.emit = "none"
    /\ last.branch \in {"free", "path"} =>
            last.emit = IF pc = "emit" THEN "pending" ELSE C14_Due
    /\ (last.branch = "free" /\ pc /= "emit") =>
            surface.cursor_position =
                <<last.move_to[1] + text_extents(<<last.letter>>)[5],
                  last.move_to[2]>>
    /\ OnPath =>
            surface.text_path_width =
                last.before.text_path_width
                + text_extents(<<last.letter>>)[5]
                + (IF last.k > 0 THEN loc.letter_spacing ELSE 0)

\* A whitespace character on the path, not skipped, past its turn of the
\* loop without a glyph call, in a node drawn as text with a letter spacing.
C14_Witness ==
    /\ last.branch = "path"
    /\ pc = "body"
    /\ last.letter = " "
    /\ last.k = 1
    /\ loc.draw_as_text
    /\ loc.letter_spacing /= 0
    /\ last.emit = "none"
    /\ surface.text_path_width > last.before.text_path_width


-----------------------------------------------------------------------------
(* Claims about the vertical alignment's value, checked under SpecBaseline *)

\* What the baseline attributes ask for when no display-anchor decides.
C15_ByBaseline(b, ascent, descent) ==
    CASE b \in {"central", "middle"} -> Half(ascent + descent) - descent
      [] b \in {"text-before-edge", "before_edge", "top", "hanging",
                "text-top"} -> ascent
      [] b \in {"text-after-edge", "after_edge", "bottom", "text-bottom"} ->
            -descent
      [] OTHER -> 0

\* C15: under horizontal font metrics the display-anchor comes first: middle,
\* top and bottom give -height/2 - yBearing, -yBearing and -height - yBearing
\* whatever the baseline attributes are; any other display-anchor leaves the
\* choice to dominant-baseline, or alignment-baseline when that is absent:
\* (ascent + descent)/2 - descent for central and middle, ascent for the
\* before-edge names, -descent for the after-edge names, 0 otherwise.
C15_DisplayAnchorFirst ==
    (pc /= "idle"
     /\ font_extents(Node)[4] > 0 /\ font_extents(Node)[5] = 0) =>
        LET fe == font_extents(Node)
            b == IF Node.dominant_baseline /= "" THEN Node.dominant_baseline
                 ELSE Node.alignment_baseline
        IN  loc.y_align =
                CASE Node.display_anchor = "middle" ->
                        (0 - loc.height) \div 2 - loc.y_bearing
                  [] Node.display_anchor = "top" -> 0 - loc.y_bearing
                  [] Node.display_anchor = "bottom" ->
                        0 - loc.height - loc.y_bearing
                  [] OTHER -> C15_ByBaseline(b, fe[1], fe[2])

\* A node with text whose display-anchor and baseline attributes disagree:
\* the display-anchor's value is the one taken.
C15_Witness ==
    /\ pc = "done"
    /\ Node.text /= <<>>
    /\ font_extents(Node) = HorizontalFont
    /\ Node.display_anchor = "middle"
    /\ Node.dominant_baseline = "text-after-edge"
    /\ Node.alignment_baseline = "hanging"
    /\ loc.height /= 0
    /\ loc.y_align = (0 - loc.height) \div 2 - loc.y_bearing
    /\ loc.y_align \notin {HorizontalFont[1], 0 - HorizontalFont[2]}


-----------------------------------------------------------------------------
(* Claims about get_node_text_extents, checked under SpecExtents *)

RECURSIVE UpPath(_, _)
\* The node, its parent, and so on up to the root.
UpPath(d, n) ==
    <<n>> \o (IF d[n].parent = 0 THEN <<>> ELSE UpPath(d, d[n].parent))

RECURSIVE IsAbove(_, _, _)
\* a is m or an ancestor of m.
IsAbove(d, a, m) ==
    \/ m = a
    \/ d[m].parent /= 0 /\ IsAbove(d, a, d[m].parent)

\* The nearest of the node and its ancestors that is a text element; the
\* node when there is none.
C16_Container(d, n) ==
    LET up == UpPath(d, n)
        hits == {k \in 1..Len(up) : d[up[k]].tag = "text"}
    IN  IF hits = {} THEN n
        ELSE up[CHOOSE k \in hits : \A j \in hits : k <= j]

RECURSIVE C16_WidthOf(_, _)
\* The widths of the nodes of S, each counted once.
C16_WidthOf(d, S) ==
    IF S = {} THEN 0
    ELSE LET m == CHOOSE v \in S : TRUE
         IN  text_extents(d[m].text)[3] + C16_WidthOf(d, S \ {m})

\* The sequence lists each node of S once, a node before everything below
\* it, the nodes below it right after it, and siblings in document order.
C16_PreOrder(d, order, S) ==
    /\ Len(order) = Cardinality(S)
    /\ {order[k] : k \in 1..Len(order)} = S
    /\ \A a, b \in 1..Len(order) :
        /\ IsAbove(d, order[a], order[b]) => a <= b
        /\ (a < b /\ ~IsAbove(d, order[a], order[b])) =>
                \A c \in b..Len(order) : ~IsAbove(d, order[a], order[c])
        /\ (a < b /\ d[order[a]].parent = d[order[b]].parent
                  /\ d[order[a]].parent /= 0) =>
                LET ch == d[d[order[a]].parent].children
                IN  \E j, k \in 1..Len(ch) :
                        j < k /\ ch[j] = order[a] /\ ch[k] = order[b]

\* C16: get_node_text_extents(node) takes as container the nearest of node
\* and its ancestors tagged 'text' (node when there is none), visits every
\* node below the container, the container included, once and in pre-order,
\* and returns as width the sum of the visited widths, as xBearing, yBearing
\* and height those of node alone, xAdvance = width - xBearing and
\* yAdvance = height - yBearing; the walk to the container takes fewer turns
\* than the tree has nodes, and then ends.
C16_ContainerSum ==
    /\ ex.pc = "walk" =>
        /\ ex.steps < Len(ex.doc)
        /\ IsAbove(ex.doc, ex.parent_text_node, ex.node)
        /\ ex.steps + 1 =
               CHOOSE k \in 1..Len(UpPath(ex.doc, ex.node)) :
                   UpPath(ex.doc, ex.node)[k] = ex.parent_text_node
    /\ ex.pc = "ret" =>
        LET d == ex.doc
            n == ex.node
            c == C16_Container(d, n)
            below == {m \in 1..Len(d) : IsAbove(d, c, m)}
            own == text_extents(d[n].text)
            e == ex.extents
        IN  /\ ex.parent_text_node = c
            /\ C16_PreOrder(d, ex.order, below)
            /\ e[3] = C16_WidthOf(d, below)
            /\ e[1] = own[1] /\ e[2] = own[2] /\ e[4] = own[4]
            /\ e[5] = e[3] - e[1]
            /\ e[6] = e[4] - e[2]

\* A tspan two levels below its text element, in a tree whose document order
\* is not the order of its node numbers: the container is the root, reached
\* in two turns, and the width is more than the tspan's own.
C16_Witness ==
    /\ ex.pc = "ret"
    /\ ex.steps = 2
    /\ ex.doc[ex.node].tag = "tspan"
    /\ ex.parent_text_node /= ex.node
    /\ ex.doc[ex.parent_text_node].tag = "text"
    /\ ex.order = <<1, 3, 2>>
    /\ ex.extents[3] > text_extents(ex.doc[ex.node].text)[3]
    /\ ex.extents[1] = text_extents(ex.doc[ex.node].text)[1]


-----------------------------------------------------------------------------
(* Claims about references that resolve to no path, checked under SpecOnPath *)

\* The reference of the node, or of its parent, has no fragment or names a
\* fragment that no path is registered under.
C17_Case ==
    /\ pc /= "idle"
    /\ LET href == IF Node.href /= "" THEN Node.href
                   ELSE doc[Node.parent].href
       IN  \/ href \in {"", "other.svg"}
           \/ href = "#q" /\ "q" \notin RegisteredPaths

\* C17: such a node is laid out in free placement and text() goes on
\* to its loop: the referenced path is not drawn, surface.text_path_width
\* stays as it was, and each character is placed from its own x and y or the
\* shared cursor.
C17_UnresolvedIsFree ==
    C17_Case =>
        /\ pc \in {"body", "emit", "done"}
        /\ ~loc.drew_path
        /\ loc.cairo_path = <<>>
        /\ surface.text_path_width = loc.entry.text_path_width
        /\ Placed =>
            /\ last.branch = "free"
            /\ last.move_to =
                  <<(IF last.pos.x = None THEN last.before.cursor_position[1]
                     ELSE last.pos.x[1])
                    + (IF last.k > 0 THEN loc.letter_spacing ELSE 0),
                    IF last.pos.y = None THEN last.before.cursor_position[2]
                    ELSE last.pos.y[1]>>

\* The second character of a node that names an unregistered fragment, drawn
\* after a node that moved along the registered path.
C17_Witness ==
    /\ C17_Case
    /\ Node.href = "#q"
    /\ loc.entry.text_path_width /= 0
    /\ last.branch = "free"
    /\ last.k = 1
    /\ pc = "body"
    /\ last.move_to[1] = last.before.cursor_position[1]
    /\ last.move_to[1] /= 0


-----------------------------------------------------------------------------
(* Claims about the bounding box in free placement, checked under Spec *)

\* C18 as stated: in free placement the bounding box is extended, for each
\* character, with the corner (x + xAlign + deltaAccumulator.x,
\* y + yAlign + deltaAccumulator.y), (x, y) being the point passed to
\* move_to, and with that corner plus (advance, height) of the character.
C18_CornersAtPen ==
    last.branch = "free" =>
        LET te == text_extents(<<last.letter>>)
            first == <<last.move_to[1] + loc.x_align
                         + surface.cursor_d_position[1],
                       last.move_to[2] + loc.y_align
                         + surface.cursor_d_position[2]>>
            second == <<first[1] + te[5], first[2] + te[4]>>
        IN  /\ last.points = {first, second}
            /\ bounding_box = last.box_before \cup {first, second}


-----------------------------------------------------------------------------
(* Claims about the points the sampler returns, checked under SpecPath *)

Between(v, a, b) == (a <= v /\ v <= b) \/ (b <= v /\ v <= a)
\* The point lies on the segment from a to b.
OnSegment(point, a, b) ==
    /\ (point[1] - a[1]) * (b[2] - a[2]) = (point[2] - a[2]) * (b[1] - a[1])
    /\ Between(point[1], a[1], b[1])
    /\ Between(point[2], a[2], b[2])
\* The point lies on one of the lines of the path.
OnPolyline(path, point) ==
    \E k \in 2..Len(path) :
        /\ path[k][1] = PATH_LINE_TO
        /\ OnSegment(point, path[k - 1][2], path[k][2])

-----------------------------------------------------------------------------
(* Claims about the delta accumulator across nodes, checked under Spec *)

\* What C20 asks of one step of a render pass in free placement.
C20_Step ==
    \* between two nodes, and before a node's first character, the cursor
    \* and the accumulator are those the previous node left
    /\ (pc = "done" /\ pc' = "idle") => surface' = surface
    /\ (pc = "idle" /\ pc' = "body") =>
            /\ surface' = surface
            /\ loc'.entry = surface
    \* a character without x (resp. y) adds its dx (resp. dy) to what was left
    /\ (pc = "body" /\ pc' = "emit") =>
            /\ last'.branch = "free"
            /\ surface'.cursor_position = surface.cursor_position
            /\ last'.pos.x = None =>
                    surface'.cursor_d_position[1] =
                        surface.cursor_d_position[1] + OrZero(last'.pos.dx)
            /\ last'.pos.y = None =>
                    surface'.cursor_d_position[2] =
                        surface.cursor_d_position[2] + OrZero(last'.pos.dy)
    \* the cursor committed after the character is (x + advance, y) of the
    \* point passed to move_to, with no delta, alignment or rotation in it
    /\ (pc = "emit" /\ pc' = "body") =>
            /\ surface'.cursor_position =
                    <<last.move_to[1] + text_extents(<<last.letter>>)[5],
                      last.move_to[2]>>
            /\ surface'.cursor_d_position = surface.cursor_d_position

\* C20: the delta accumulator is carried from node to node and never enters
\* the committed cursor: in any sequence of nodes in free placement the
\* cursor after each character is (x + advance, y) of that character's pen
\* position, whatever dx, dy, xAlign, yAlign and the rotation are, and a
\* later node whose characters have no x (resp. y) starts from the
\* accumulator's x (resp. y) as the previous node left it.
C20_DeltaCarried == [][C20_Step]_vars

\* The first character of a second node, without x or y, anchored and
\* aligned, has been drawn: the accumulator the first node left is in its
\* pen, and the cursor is its move_to point plus the advance.
C20_Witness ==
    /\ nodes_done = 1
    /\ pc = "body"
    /\ last.branch = "free"
    /\ last.k = 0
    /\ last.pos.x = None /\ last.pos.y = None
    /\ loc.entry.cursor_d_position[1] /= 0
    /\ loc.entry.cursor_d_position[2] /= 0
    /\ loc.x_align /= 0 /\ loc.y_align /= 0
    /\ surface.cursor_d_position[1] =
           loc.entry.cursor_d_position[1] + OrZero(last.pos.dx)
    /\ surface.cursor_d_position[1] /= OrZero(last.pos.dx)
    /\ surface.cursor_position =
           <<last.move_to[1] + text_extents(<<last.letter>>)[5],
             last.move_to[2]>>
    /\ last.pen /= last.move_to

=============================================================================
